---- MODULE Spec2Model ----
(***************************************************************************)
(* Model of uniswap-v3-math: sqrt_price_math.rs and tick.rs.               *)
(*                                                                         *)
(* The library consists of pure functions over fixed-width integers.  Each *)
(* function is an operator computed as the code computes it, and each      *)
(* public entry point is an action that draws its arguments, applies the   *)
(* operator and records the call and its outcome.                          *)
(*                                                                         *)
(* Integer widths are scaled down so that the double-width products stay   *)
(* inside the model checker's integers: U256 is WordBits wide, u128/i128   *)
(* are LiqBits wide and the Q64.96 resolution (96) is ResBits, keeping     *)
(* LiqBits + ResBits <= WordBits as 128 + 96 <= 256 in the code.           *)
(*                                                                         *)
(* ethers' U256 (uint crate) panics on overflow of +, - and * and on       *)
(* division by zero in every build profile; shl silently drops the bits    *)
(* shifted out.  A call therefore ends in one of three ways: Ok(value),    *)
(* Err(error) or a panic.                                                  *)
(***************************************************************************)
EXTENDS Integers, FiniteSets, Sequences, TLC

VARIABLES pc, call, ret, tick_mapping

vars == <<pc, call, ret, tick_mapping>>

(* ---------------------------- widths ---------------------------------- *)

WordBits == 6

LiqBits == 3

ResBits == 2

MaxTick == 1

MaxNet == 1

MaxEntries == 2

MaxU256 == 2^WordBits - 1

MaxU128 == 2^LiqBits - 1

MaxI128 == 2^(LiqBits - 1) - 1

MinI128 == -(2^(LiqBits - 1))

\* U256::from("0x1000000000000000000000000") = 2^96
Q96 == 2^ResBits

\* U256::from("0xFFFFFFFFFFFFFFFFFFFFFFFFFFFFFFFFFFFFFFFF") = 2^160 - 1
MaxU160 == 2^(WordBits - ResBits) - 1

U256 == 0..MaxU256

U128 == 0..MaxU128

I128 == MinI128..MaxI128

(* ---------------------------- outcomes -------------------------------- *)

Ok(v) == [kind |-> "Ok", val |-> v, err |-> "none"]

Err(e) == [kind |-> "Err", val |-> 0, err |-> e]

Panic == [kind |-> "Panic", val |-> 0, err |-> "none"]

NoRet == [kind |-> "none", val |-> 0, err |-> "none"]

IsOk(r) == r.kind = "Ok"

(* ------------------------ integer primitives -------------------------- *)

\* U256 shl: bits shifted past the word are dropped
shl(x, n) == (x * 2^n) % 2^WordBits

\* full_math::mul_div: floor(a*b/denominator) over the double-width product
mul_div(a, b, denominator) ==
    IF denominator = 0 THEN Err("DenominatorIsZero")
    ELSE IF (a * b) \div 2^WordBits >= denominator THEN Err("Overflow")
    ELSE Ok((a * b) \div denominator)

\* full_math::mul_div_rounding_up: mul_div, plus one when inexact
mul_div_rounding_up(a, b, denominator) ==
    LET result == mul_div(a, b, denominator) IN
    IF ~IsOk(result) THEN result
    ELSE IF (a * b) % denominator > 0
         THEN IF result.val = MaxU256 THEN Err("Overflow")
              ELSE Ok(result.val + 1)
         ELSE result

\* unsafe_math::div_rounding_up: ceil(a/b), caller guarantees b != 0
div_rounding_up(a, b) ==
    IF a % b > 0 THEN (a \div b) + 1 ELSE a \div b

(* --------------------- sqrt-price transition engine ------------------- *)

get_next_sqrt_price_from_amount_0_rounding_up(sqrt_price_x_96, liquidity, amount, add) ==
    IF amount = 0 THEN Ok(sqrt_price_x_96)
    ELSE
    LET numerator_1 == shl(liquidity, ResBits)
        product     == amount * sqrt_price_x_96
        fallback    ==
            IF sqrt_price_x_96 = 0 THEN Panic
            ELSE IF (numerator_1 \div sqrt_price_x_96) + amount > MaxU256 THEN Panic
            ELSE Ok(div_rounding_up(numerator_1,
                                    (numerator_1 \div sqrt_price_x_96) + amount))
    IN
    IF product > MaxU256 THEN Panic      \* U256 `*` panics on overflow
    ELSE IF add THEN
        IF product \div amount = sqrt_price_x_96 THEN
            IF numerator_1 + product > MaxU256 THEN Panic
            ELSE LET denominator == numerator_1 + product IN
                 IF denominator >= numerator_1
                 THEN mul_div_rounding_up(numerator_1, sqrt_price_x_96, denominator)
                 ELSE fallback
        ELSE fallback
    ELSE
        IF product \div amount = sqrt_price_x_96 /\ numerator_1 > product
        THEN mul_div_rounding_up(numerator_1, sqrt_price_x_96, numerator_1 - product)
        ELSE Err("ProductDivAmount")

\* faulty variant: the subtracted quotient is rounded down instead of up
amount_1_quotient_floored(sqrt_price_x_96, liquidity, amount, add) ==
    LET quotent ==
          IF amount <= MaxU160
          THEN IF liquidity = 0 THEN Panic
               ELSE Ok(shl(amount, ResBits) \div liquidity)
          ELSE mul_div(amount, Q96, liquidity)
    IN
    IF ~IsOk(quotent) THEN quotent
    ELSE IF add THEN
        IF sqrt_price_x_96 + quotent.val > MaxU256 THEN Panic
        ELSE Ok(sqrt_price_x_96 + quotent.val)
    ELSE
        IF quotent.val > sqrt_price_x_96 THEN Panic
        ELSE Ok(sqrt_price_x_96 - quotent.val)

get_next_sqrt_price_from_amount_1_rounding_down(sqrt_price_x_96, liquidity, amount, add) ==
    IF add THEN
        LET quotent ==
              IF amount <= MaxU160
              THEN IF liquidity = 0 THEN Panic
                   ELSE Ok(shl(amount, ResBits) \div liquidity)
              ELSE mul_div(amount, Q96, liquidity)
        IN
        IF ~IsOk(quotent) THEN quotent
        ELSE IF sqrt_price_x_96 + quotent.val > MaxU256 THEN Panic
        ELSE Ok(sqrt_price_x_96 + quotent.val)
    ELSE
        LET quotent ==
              IF amount <= MaxU160
              THEN IF liquidity = 0 THEN Panic
                   ELSE Ok(div_rounding_up(shl(amount, ResBits), liquidity))
              ELSE mul_div_rounding_up(amount, Q96, liquidity)
        IN
        IF ~IsOk(quotent) THEN quotent
        ELSE IF quotent.val > sqrt_price_x_96 THEN Panic
        ELSE Ok(sqrt_price_x_96 - quotent.val)

\* faulty variant: the two engines are dispatched the wrong way round
input_dispatch_swapped(sqrt_price, liquidity, amount_in, zero_for_one) ==
    IF sqrt_price = 0 THEN Err("SqrtPriceIsZero")
    ELSE IF liquidity = 0 THEN Err("LiquidityIsZero")
    ELSE IF zero_for_one
         THEN get_next_sqrt_price_from_amount_1_rounding_down(sqrt_price, liquidity, amount_in, TRUE)
         ELSE get_next_sqrt_price_from_amount_0_rounding_up(sqrt_price, liquidity, amount_in, TRUE)

get_next_sqrt_price_from_input(sqrt_price, liquidity, amount_in, zero_for_one) ==
    IF sqrt_price = 0 THEN Err("SqrtPriceIsZero")
    ELSE IF liquidity = 0 THEN Err("LiquidityIsZero")
    ELSE IF zero_for_one
         THEN get_next_sqrt_price_from_amount_0_rounding_up(sqrt_price, liquidity, amount_in, TRUE)
         ELSE get_next_sqrt_price_from_amount_1_rounding_down(sqrt_price, liquidity, amount_in, TRUE)

\* faulty variant: liquidity is validated before the price
output_liquidity_checked_first(sqrt_price, liquidity, amount_out, zero_for_one) ==
    IF liquidity = 0 THEN Err("LiquidityIsZero")
    ELSE IF sqrt_price = 0 THEN Err("SqrtPriceIsZero")
    ELSE IF zero_for_one
         THEN get_next_sqrt_price_from_amount_1_rounding_down(sqrt_price, liquidity, amount_out, FALSE)
         ELSE get_next_sqrt_price_from_amount_0_rounding_up(sqrt_price, liquidity, amount_out, FALSE)

get_next_sqrt_price_from_output(sqrt_price, liquidity, amount_out, zero_for_one) ==
    IF sqrt_price = 0 THEN Err("SqrtPriceIsZero")
    ELSE IF liquidity = 0 THEN Err("LiquidityIsZero")
    ELSE IF zero_for_one
         THEN get_next_sqrt_price_from_amount_1_rounding_down(sqrt_price, liquidity, amount_out, FALSE)
         ELSE get_next_sqrt_price_from_amount_0_rounding_up(sqrt_price, liquidity, amount_out, FALSE)

(* ----------------------- range-amount calculator ---------------------- *)

\* I256::from_raw: the word reinterpreted in two's complement
I256_from_raw(x) == IF x >= 2^(WordBits - 1) THEN x - 2^WordBits ELSE x

\* faulty variant: the two rounding branches are exchanged
amount_0_delta_rounding_exchanged(sqrt_ratio_a_x_96, sqrt_ratio_b_x_96, liquidity, round_up) ==
    LET a == IF sqrt_ratio_a_x_96 > sqrt_ratio_b_x_96
             THEN sqrt_ratio_a_x_96 ELSE sqrt_ratio_b_x_96
        b == IF sqrt_ratio_a_x_96 > sqrt_ratio_b_x_96
             THEN sqrt_ratio_b_x_96 ELSE sqrt_ratio_a_x_96
        numerator_1 == shl(liquidity, ResBits)
        numerator_2 == a - b
    IN
    IF liquidity < 0 THEN Panic
    ELSE IF a = 0 THEN Err("SqrtPriceIsZero")
    ELSE IF ~round_up THEN
        LET numerator_partial == mul_div_rounding_up(numerator_1, numerator_2, b) IN
        IF ~IsOk(numerator_partial) THEN numerator_partial
        ELSE Ok(div_rounding_up(numerator_partial.val, a))
    ELSE
        LET quotient == mul_div(numerator_1, numerator_2, b) IN
        IF ~IsOk(quotient) THEN quotient
        ELSE Ok(quotient.val \div a)

_get_amount_0_delta(sqrt_ratio_a_x_96, sqrt_ratio_b_x_96, liquidity, round_up) ==
    LET a == IF sqrt_ratio_a_x_96 > sqrt_ratio_b_x_96
             THEN sqrt_ratio_a_x_96 ELSE sqrt_ratio_b_x_96
        b == IF sqrt_ratio_a_x_96 > sqrt_ratio_b_x_96
             THEN sqrt_ratio_b_x_96 ELSE sqrt_ratio_a_x_96
        numerator_1 == shl(liquidity, ResBits)
        numerator_2 == a - b
    IN
    IF liquidity < 0 THEN Panic          \* U256::from of a negative i128
    ELSE IF a = 0 THEN Err("SqrtPriceIsZero")
    ELSE IF round_up THEN
        LET numerator_partial == mul_div_rounding_up(numerator_1, numerator_2, b) IN
        IF ~IsOk(numerator_partial) THEN numerator_partial
        ELSE Ok(div_rounding_up(numerator_partial.val, a))
    ELSE
        LET quotient == mul_div(numerator_1, numerator_2, b) IN
        IF ~IsOk(quotient) THEN quotient
        ELSE Ok(quotient.val \div a)

_get_amount_1_delta(sqrt_ratio_a_x_96, sqrt_ratio_b_x_96, liquidity, round_up) ==
    LET a == IF sqrt_ratio_a_x_96 > sqrt_ratio_b_x_96
             THEN sqrt_ratio_a_x_96 ELSE sqrt_ratio_b_x_96
        b == IF sqrt_ratio_a_x_96 > sqrt_ratio_b_x_96
             THEN sqrt_ratio_b_x_96 ELSE sqrt_ratio_a_x_96
    IN
    IF liquidity < 0 THEN Panic          \* U256::from of a negative i128
    ELSE IF b - a < 0 THEN Panic         \* U256 `-` panics on overflow
    ELSE IF round_up
         THEN mul_div_rounding_up(liquidity, b - a, Q96)
         ELSE mul_div(liquidity, b - a, Q96)

\* -liquidity on i128::MIN overflows: a panic with overflow checks, and
\* without them the wrapped value is MIN again, which U256::from rejects
\* with a panic; both builds panic.
get_amount_0_delta(sqrt_ratio_a_x_96, sqrt_ratio_b_x_96, liquidity) ==
    IF liquidity < 0 THEN
        IF liquidity = MinI128 THEN Panic
        ELSE LET r == _get_amount_0_delta(sqrt_ratio_b_x_96, sqrt_ratio_a_x_96,
                                          -liquidity, FALSE)
             IN IF IsOk(r) THEN Ok(I256_from_raw(r.val)) ELSE r
    ELSE
        LET r == _get_amount_0_delta(sqrt_ratio_a_x_96, sqrt_ratio_b_x_96,
                                     liquidity, TRUE)
        IN IF IsOk(r) THEN Ok(I256_from_raw(r.val)) ELSE r

get_amount_1_delta(sqrt_ratio_a_x_96, sqrt_ratio_b_x_96, liquidity) ==
    IF liquidity < 0 THEN
        IF liquidity = MinI128 THEN Panic
        ELSE LET r == _get_amount_1_delta(sqrt_ratio_b_x_96, sqrt_ratio_a_x_96,
                                          -liquidity, FALSE)
             IN IF IsOk(r) THEN Ok(I256_from_raw(r.val)) ELSE r
    ELSE
        LET r == _get_amount_1_delta(sqrt_ratio_a_x_96, sqrt_ratio_b_x_96,
                                     liquidity, TRUE)
        IN IF IsOk(r) THEN Ok(I256_from_raw(r.val)) ELSE r

(* ------------------------------ state --------------------------------- *)

NoCall == [fn |-> "none"]

Init ==
    /\ pc = "idle"
    /\ call = NoCall
    /\ ret = NoRet
    /\ tick_mapping = <<>>

CallNextSqrtPriceFromInput ==
    /\ pc = "idle"
    /\ \E sqrt_price \in U256, liquidity \in U128, amount_in \in U256, zero_for_one \in BOOLEAN :
          /\ call' = [fn |-> "get_next_sqrt_price_from_input", sqrt_price |-> sqrt_price,
                      liquidity |-> liquidity, amount |-> amount_in,
                      zero_for_one |-> zero_for_one]
          /\ ret' = get_next_sqrt_price_from_input(sqrt_price, liquidity, amount_in, zero_for_one)
    /\ pc' = "done"
    /\ UNCHANGED tick_mapping

CallNextSqrtPriceFromOutput ==
    /\ pc = "idle"
    /\ \E sqrt_price \in U256, liquidity \in U128, amount_out \in U256, zero_for_one \in BOOLEAN :
          /\ call' = [fn |-> "get_next_sqrt_price_from_output", sqrt_price |-> sqrt_price,
                      liquidity |-> liquidity, amount |-> amount_out,
                      zero_for_one |-> zero_for_one]
          /\ ret' = get_next_sqrt_price_from_output(sqrt_price, liquidity, amount_out, zero_for_one)
    /\ pc' = "done"
    /\ UNCHANGED tick_mapping

\* The caller feeds the price returned by get_next_sqrt_price_from_input back
\* into get_next_sqrt_price_from_output with the same liquidity, amount and
\* direction; origin remembers the price the first call started from.
CallNextSqrtPriceFromOutputOnResult ==
    /\ pc = "done"
    /\ call.fn = "get_next_sqrt_price_from_input"
    /\ IsOk(ret)
    /\ call' = [fn |-> "get_next_sqrt_price_from_output", sqrt_price |-> ret.val,
                liquidity |-> call.liquidity, amount |-> call.amount,
                zero_for_one |-> call.zero_for_one, origin |-> call.sqrt_price]
    /\ ret' = get_next_sqrt_price_from_output(ret.val, call.liquidity, call.amount,
                                              call.zero_for_one)
    /\ pc' = "chained"
    /\ UNCHANGED tick_mapping

NextPrice ==
    \/ CallNextSqrtPriceFromInput
    \/ CallNextSqrtPriceFromOutput
    \/ CallNextSqrtPriceFromOutputOnResult

SpecPrice == Init /\ [][NextPrice]_vars

InInput == pc = "done" /\ call.fn = "get_next_sqrt_price_from_input"

InOutput == pc \in {"done", "chained"} /\ call.fn = "get_next_sqrt_price_from_output"

InRoundTrip == pc = "chained" /\ call.fn = "get_next_sqrt_price_from_output"

(* ------------------- claims on the transition engine ------------------ *)

\* C3: whenever get_next_sqrt_price_from_input or
\* get_next_sqrt_price_from_output returns Ok(p) for a price > 0 and a
\* liquidity > 0, p is strictly positive.
C3_ReturnedPriceIsPositive ==
    (InInput \/ InOutput) /\ call.sqrt_price > 0 /\ call.liquidity > 0 /\ IsOk(ret)
        => ret.val > 0

\* C4: both entry points validate before any arithmetic: a zero price gives
\* the zero-price error for every liquidity, amount and direction; a nonzero
\* price with zero liquidity gives the zero-liquidity error.
C4_InputsValidatedFirst ==
    (InInput \/ InOutput) =>
        /\ call.sqrt_price = 0 => ret = Err("SqrtPriceIsZero")
        /\ call.sqrt_price # 0 /\ call.liquidity = 0 => ret = Err("LiquidityIsZero")

C4_Witness ==
    /\ InOutput
    /\ call.sqrt_price = 0 /\ call.liquidity = 0 /\ call.amount = MaxU256
    /\ ret = Err("SqrtPriceIsZero")

\* C5: get_next_sqrt_price_from_input is monotone in the amount: for a fixed
\* price > 0, liquidity > 0 and direction, a larger amount whose call also
\* succeeds gives a price that is not larger (zero_for_one) or not smaller
\* (not zero_for_one); amount 0 returns the price itself.
C5_InputMonotoneInAmount ==
    InInput /\ call.sqrt_price > 0 /\ call.liquidity > 0 /\ IsOk(ret) =>
        /\ call.amount = 0 => ret.val = call.sqrt_price
        /\ \A a2 \in U256 :
              LET r2 == get_next_sqrt_price_from_input(call.sqrt_price, call.liquidity,
                                                       a2, call.zero_for_one)
              IN a2 >= call.amount /\ IsOk(r2) =>
                    IF call.zero_for_one THEN r2.val <= ret.val ELSE r2.val >= ret.val

\* a successful call that strictly moved the price, in the presence of a
\* larger amount that succeeds too and moves it strictly further
C5_Witness ==
    /\ InInput /\ IsOk(ret) /\ call.zero_for_one
    /\ ret.val < call.sqrt_price
    /\ \E a2 \in U256 :
          LET r2 == get_next_sqrt_price_from_input(call.sqrt_price, call.liquidity,
                                                   a2, TRUE)
          IN a2 > call.amount /\ IsOk(r2) /\ r2.val < ret.val

\* C6 (as claimed): feeding the result of get_next_sqrt_price_from_input(P, L,
\* A, true) into get_next_sqrt_price_from_output(., L, A, true) recovers P up
\* to a few units in the last place.
C6_RoundTripRecoversPrice ==
    InRoundTrip /\ call.zero_for_one /\ IsOk(ret) =>
        /\ ret.val - call.origin <= 2
        /\ call.origin - ret.val <= 2

\* C6 (amended): the second call moves the price further down, so the round
\* trip with zero_for_one = true returns a price <= P, and returns P only
\* when A = 0.
C6_RoundTripMovesPriceDown ==
    InRoundTrip /\ call.zero_for_one /\ IsOk(ret) =>
        /\ ret.val <= call.origin
        /\ (ret.val = call.origin) <=> (call.amount = 0)

C6_Witness ==
    /\ InRoundTrip /\ call.zero_for_one /\ IsOk(ret)
    /\ call.amount > 0
    /\ call.sqrt_price < call.origin
    /\ ret.val < call.sqrt_price
    /\ call.origin - ret.val > 2

\* C9: in the token0 add path with amount # 0, when amount * price fits the
\* word and numerator1 + product does not wrap the result is
\* mul_div_rounding_up(numerator1, price, numerator1 + product); in every
\* other case the call completes with
\* div_rounding_up(numerator1, numerator1 / price + amount).
C9_Amount0AddFallsBack ==
    InInput /\ call.zero_for_one /\ call.amount # 0
            /\ call.sqrt_price > 0 /\ call.liquidity > 0 =>
        LET numerator_1 == shl(call.liquidity, ResBits)
            product     == call.amount * call.sqrt_price
            sum         == (numerator_1 \div call.sqrt_price) + call.amount
        IN IF product <= MaxU256 /\ numerator_1 + product <= MaxU256
           THEN ret = mul_div_rounding_up(numerator_1, call.sqrt_price,
                                          numerator_1 + product)
           ELSE /\ IsOk(ret)
                /\ sum <= MaxU256 => ret.val = div_rounding_up(numerator_1, sum)

(* ------------------------- range-amount calls ------------------------- *)

CallAmount0DeltaUnsigned ==
    /\ pc = "idle"
    /\ \E a \in U256, b \in U256, liquidity \in I128, round_up \in BOOLEAN :
          /\ call' = [fn |-> "_get_amount_0_delta", sqrt_ratio_a_x_96 |-> a,
                      sqrt_ratio_b_x_96 |-> b, liquidity |-> liquidity,
                      round_up |-> round_up]
          /\ ret' = _get_amount_0_delta(a, b, liquidity, round_up)
    /\ pc' = "done"
    /\ UNCHANGED tick_mapping

CallAmount1DeltaUnsigned ==
    /\ pc = "idle"
    /\ \E a \in U256, b \in U256, liquidity \in I128, round_up \in BOOLEAN :
          /\ call' = [fn |-> "_get_amount_1_delta", sqrt_ratio_a_x_96 |-> a,
                      sqrt_ratio_b_x_96 |-> b, liquidity |-> liquidity,
                      round_up |-> round_up]
          /\ ret' = _get_amount_1_delta(a, b, liquidity, round_up)
    /\ pc' = "done"
    /\ UNCHANGED tick_mapping

CallAmount0Delta ==
    /\ pc = "idle"
    /\ \E a \in U256, b \in U256, liquidity \in I128 :
          /\ call' = [fn |-> "get_amount_0_delta", sqrt_ratio_a_x_96 |-> a,
                      sqrt_ratio_b_x_96 |-> b, liquidity |-> liquidity]
          /\ ret' = get_amount_0_delta(a, b, liquidity)
    /\ pc' = "done"
    /\ UNCHANGED tick_mapping

CallAmount1Delta ==
    /\ pc = "idle"
    /\ \E a \in U256, b \in U256, liquidity \in I128 :
          /\ call' = [fn |-> "get_amount_1_delta", sqrt_ratio_a_x_96 |-> a,
                      sqrt_ratio_b_x_96 |-> b, liquidity |-> liquidity]
          /\ ret' = get_amount_1_delta(a, b, liquidity)
    /\ pc' = "done"
    /\ UNCHANGED tick_mapping

NextDelta ==
    \/ CallAmount0DeltaUnsigned
    \/ CallAmount1DeltaUnsigned
    \/ CallAmount0Delta
    \/ CallAmount1Delta

SpecDelta == Init /\ [][NextDelta]_vars

In(fn) == pc = "done" /\ call.fn = fn

SqrtHigh == IF call.sqrt_ratio_a_x_96 > call.sqrt_ratio_b_x_96
            THEN call.sqrt_ratio_a_x_96 ELSE call.sqrt_ratio_b_x_96

SqrtLow == IF call.sqrt_ratio_a_x_96 > call.sqrt_ratio_b_x_96
           THEN call.sqrt_ratio_b_x_96 ELSE call.sqrt_ratio_a_x_96

(* ------------------- claims on the range-amount calculator ------------ *)

\* C1: when get_amount_0_delta / get_amount_1_delta succeed, a negative
\* liquidity gives the negation of the unsigned delta computed with the
\* boundaries swapped, |liquidity| and round_up = false (so <= 0), and a
\* non-negative liquidity gives the unsigned delta with the original
\* boundary order and round_up = true (so >= 0).
C1_SignFollowsLiquidity ==
    (In("get_amount_0_delta") \/ In("get_amount_1_delta")) /\ IsOk(ret) =>
        LET a == call.sqrt_ratio_a_x_96
            b == call.sqrt_ratio_b_x_96
            l == call.liquidity
            unsigned == IF call.fn = "get_amount_0_delta"
                        THEN IF l < 0 THEN _get_amount_0_delta(b, a, -l, FALSE)
                                      ELSE _get_amount_0_delta(a, b, l, TRUE)
                        ELSE IF l < 0 THEN _get_amount_1_delta(b, a, -l, FALSE)
                                      ELSE _get_amount_1_delta(a, b, l, TRUE)
        IN IF l < 0 THEN ret.val = -unsigned.val /\ ret.val <= 0
                    ELSE ret.val = unsigned.val /\ ret.val >= 0

\* C2: for boundaries in either order and liquidity >= 0, _get_amount_1_delta
\* returns floor(L * (sqrtHigh - sqrtLow) / 2^96), or the ceiling with
\* round_up; it yields a value whenever the boundaries differ.
C2_Amount1DeltaValue ==
    In("_get_amount_1_delta") /\ call.liquidity >= 0 =>
        /\ ret.kind # "Panic"
        /\ ret = IF call.round_up
                 THEN mul_div_rounding_up(call.liquidity, SqrtHigh - SqrtLow, Q96)
                 ELSE mul_div(call.liquidity, SqrtHigh - SqrtLow, Q96)

\* C7: for boundaries in either order and liquidity >= 0, _get_amount_0_delta
\* with round_up = true, div_rounding_up(mul_div_rounding_up(L << 96,
\* sqrtHigh - sqrtLow, sqrtLow), sqrtHigh), is never smaller than with
\* round_up = false, mul_div(L << 96, sqrtHigh - sqrtLow, sqrtLow) / sqrtHigh.
C7_RoundUpNotBelowRoundDown ==
    In("_get_amount_0_delta") /\ ~call.round_up /\ call.liquidity >= 0 /\ IsOk(ret) =>
        LET up == _get_amount_0_delta(call.sqrt_ratio_a_x_96, call.sqrt_ratio_b_x_96,
                                      call.liquidity, TRUE)
            numerator_1 == shl(call.liquidity, ResBits)
        IN /\ ret.val = mul_div(numerator_1, SqrtHigh - SqrtLow, SqrtLow).val \div SqrtHigh
           /\ IsOk(up) =>
                 /\ up.val >= ret.val
                 /\ up.val = div_rounding_up(
                                 mul_div_rounding_up(numerator_1, SqrtHigh - SqrtLow,
                                                     SqrtLow).val, SqrtHigh)

\* both roundings succeed and differ
C7_Witness ==
    /\ In("_get_amount_0_delta") /\ ~call.round_up /\ IsOk(ret)
    /\ call.liquidity > 0
    /\ call.sqrt_ratio_a_x_96 < call.sqrt_ratio_b_x_96
    /\ LET up == _get_amount_0_delta(call.sqrt_ratio_a_x_96, call.sqrt_ratio_b_x_96,
                                     call.liquidity, TRUE)
       IN IsOk(up) /\ up.val > ret.val /\ ret.val > 0

\* C10: _get_amount_0_delta fails with the zero-price error whenever the
\* lower of the two boundaries is zero, in either argument position.
C10_ZeroLowBoundaryIsZeroPriceError ==
    In("_get_amount_0_delta") /\ call.liquidity >= 0 /\ SqrtLow = 0 =>
        ret = Err("SqrtPriceIsZero")

(* ------------------------------- ticks -------------------------------- *)

TickIdx == -MaxTick..MaxTick

\* struct Tick; the fee-growth, cumulative and seconds snapshots are never
\* read by this crate and are left out of the record
Tick == [liquidity_gross : {0, MaxU128},
         liquidity_net   : -MaxNet..MaxNet,
         initialized     : BOOLEAN]

\* faulty variant: an entry that is not initialized reads as absent
cross_initialized_only(mapping, tick) ==
    IF tick \in DOMAIN mapping /\ mapping[tick].initialized
    THEN mapping[tick].liquidity_net ELSE 0

\* fn cross: the mapping is taken by value and only read
cross(mapping, tick) ==
    IF tick \in DOMAIN mapping THEN mapping[tick].liquidity_net ELSE 0

\* HashMap::insert by the owner of the mapping: adds or replaces the entry
Insert ==
    /\ pc = "idle"
    /\ \E tick \in TickIdx, t \in Tick :
          /\ Cardinality(DOMAIN tick_mapping \cup {tick}) <= MaxEntries
          /\ tick_mapping' = [i \in DOMAIN tick_mapping \cup {tick} |->
                                 IF i = tick THEN t ELSE tick_mapping[i]]
          /\ call' = [fn |-> "insert", tick |-> tick, value |-> t]
    /\ UNCHANGED <<pc, ret>>

CallCross ==
    /\ pc = "idle"
    /\ \E tick \in TickIdx :
          /\ call' = [fn |-> "cross", tick_mapping |-> tick_mapping, tick |-> tick]
          /\ ret' = Ok(cross(tick_mapping, tick))
    /\ pc' = "done"
    /\ UNCHANGED tick_mapping

NextTick == Insert \/ CallCross

SpecTick == Init /\ [][NextTick]_vars

\* C8: cross is a pure lookup: 0 on an empty mapping and for an absent
\* index, exactly the stored liquidity_net for a present one whatever its
\* other fields, in particular the N just inserted at that index, and the
\* mapping is left as it was passed in.
C8_CrossIsPureLookup ==
    /\ In("cross") =>
          /\ tick_mapping = call.tick_mapping
          /\ call.tick_mapping = <<>> => ret = Ok(0)
          /\ call.tick \notin DOMAIN call.tick_mapping => ret = Ok(0)
          /\ call.tick \in DOMAIN call.tick_mapping =>
                 ret = Ok(call.tick_mapping[call.tick].liquidity_net)
    /\ pc = "idle" /\ call.fn = "insert" =>
          cross(tick_mapping, call.tick) = call.value.liquidity_net

\* a negative net liquidity read from an uninitialized tick next to another
\* entry
C8_Witness ==
    /\ In("cross")
    /\ call.tick \in DOMAIN tick_mapping
    /\ Cardinality(DOMAIN tick_mapping) = 2
    /\ ~tick_mapping[call.tick].initialized
    /\ tick_mapping[call.tick].liquidity_gross # 0
    /\ ret = Ok(-1)

====
